---- MODULE Spec2Model ----
(***************************************************************************)
(* PlayProof scoring service (src/services/scoring/main.py).               *)
(*                                                                         *)
(* The service exposes POST /score.  A ScoringRequest carries a session_id *)
(* and a list of events; the handler `score` builds a ScoringResponse.     *)
(* The handler is an `async def` without any await, so the event loop runs *)
(* each handler to completion: one request is one atomic step.  The module *)
(* keeps no state between requests; the variables below are the requests   *)
(* in flight and the responses already sent.                               *)
(*                                                                         *)
(* confidence is a float in the source; it is kept here in hundredths      *)
(* (0.95 is 95), so [0,1] is 0..100.                                       *)
(***************************************************************************)
EXTENDS Integers, Sequences, FiniteSets, TLC

\* ---- bounds of the model ------------------------------------------------
\* most requests that arrive in one behaviour
MaxRequests == 2
\* most events in one request
MaxEvents == 2

\* ---- the data model of the source ---------------------------------------
\* class VerificationResult(str, Enum)
VerificationResult == {"PASS", "FAIL", "REGENERATE", "STEP_UP"}

\* session ids submitted by callers (session_id: str)
SessionIds == {"s1", "s2"}

\* the values of Event.type that callers submit (type: str); the source
\* accepts any string, "bogus" stands for one no event kind is named after
EventTypes == {"pointer_move", "bogus"}

\* class Event(BaseModel): type, timestamp, data.  The data dict is never
\* read by the handler and is left out; timestamp is a float, one value here.
Event == [type : EventTypes, timestamp : {0}]

\* sequences over S of length at most n
RECURSIVE SeqUpTo(_, _)
SeqUpTo(S, n) ==
    IF n = 0 THEN {<<>>}
    ELSE LET shorter == SeqUpTo(S, n - 1)
         IN  shorter \cup {Append(s, e) : s \in {t \in shorter : Len(t) = n - 1}, e \in S}

\* class ScoringRequest(BaseModel): session_id, events
ScoringRequest == [session_id : SessionIds, events : SeqUpTo(Event, MaxEvents)]

\* confidence=0.95, in hundredths
PlaceholderConfidence == 95

\* class ScoringResponse(BaseModel): result, confidence, details
ScoringResponse ==
    [result : VerificationResult,
     confidence : Int,
     details : [placeholder : BOOLEAN, events_received : Nat]]

VARIABLES
    inflight,   \* request number -> ScoringRequest received, handler not yet run
    log,        \* <<[id, request, response]>> in the order the handlers ran
    nextId      \* number the next arriving request gets

vars == <<inflight, log, nextId>>

RequestIds == 1..MaxRequests

\* ---- the handler ---------------------------------------------------------
\* variant of the handler: fails on a request without events (a mean over
\* the events, say) and the failure reaches the caller
score_rejecting_empty(request) ==
    [result |-> IF request.events = <<>> THEN "ERROR" ELSE "PASS",
     confidence |-> PlaceholderConfidence,
     details |-> [placeholder |-> TRUE,
                  events_received |-> Len(request.events)]]

\* variant of the handler: a module-level counter of handled requests
\* leaks into the confidence
score_drifting(request) ==
    [result |-> "PASS",
     confidence |-> PlaceholderConfidence - Len(log),
     details |-> [placeholder |-> TRUE,
                  events_received |-> Len(request.events)]]

\* variant of the handler: remembers the sessions it has answered and
\* escalates a session that comes back
score_sticky(request) ==
    [result |-> IF \E i \in DOMAIN log : log[i].request.session_id = request.session_id
                THEN "STEP_UP" ELSE "PASS",
     confidence |-> PlaceholderConfidence,
     details |-> [placeholder |-> TRUE,
                  events_received |-> Len(request.events)]]

\* variant of the handler: counts the events of earlier requests as well
score_accumulating(request) ==
    [result |-> "PASS",
     confidence |-> PlaceholderConfidence,
     details |-> [placeholder |-> TRUE,
                  events_received |-> Len(request.events) + Len(log)]]

\* async def score(request): the placeholder body
score(request) ==
    [result |-> "PASS",
     confidence |-> PlaceholderConfidence,
     details |-> [placeholder |-> TRUE,
                  events_received |-> Len(request.events)]]

\* ---- the state machine ---------------------------------------------------
Init ==
    /\ inflight = <<>>
    /\ log = <<>>
    /\ nextId = 1

\* a structurally valid POST /score arrives and is parsed into a ScoringRequest
Receive(request) ==
    /\ nextId <= MaxRequests
    /\ inflight' = (nextId :> request) @@ inflight
    /\ nextId' = nextId + 1
    /\ UNCHANGED log

\* the event loop runs the handler of request number id to completion
Score(id) ==
    /\ id \in DOMAIN inflight
    /\ log' = Append(log, [id |-> id,
                           request |-> inflight[id],
                           response |-> score(inflight[id])])
    /\ inflight' = [k \in (DOMAIN inflight) \ {id} |-> inflight[k]]
    /\ UNCHANGED nextId

Next ==
    \/ \E request \in ScoringRequest : Receive(request)
    \/ \E id \in RequestIds : Score(id)

Spec == Init /\ [][Next]_vars

\* the event loop runs every handler that is ready
FairSpec == Spec /\ \A id \in RequestIds : WF_vars(Score(id))

TypeOK ==
    /\ nextId \in 1..(MaxRequests + 1)
    /\ DOMAIN inflight \subseteq RequestIds
    /\ \A k \in DOMAIN inflight : inflight[k] \in ScoringRequest
    /\ \A i \in DOMAIN log :
          /\ log[i].id \in RequestIds
          /\ log[i].request \in ScoringRequest
          /\ log[i].response \in ScoringResponse

\* ---- notions of the specification the claims are stated with ------------
\* the closed set of event kinds; any other type makes an event invalid
RecognizedTypes == {"pointer_move"}

InvalidEvent(e) == e.type \notin RecognizedTypes \/ e.timestamp < 0

\* the i-th handled request is the first one for its session id
IsNewSession(i) ==
    \A j \in 1..(i - 1) : log[j].request.session_id # log[i].request.session_id

\* REGENERATE verdicts the session of the i-th handled request got before it
RegenerateCount(i) ==
    Cardinality({j \in 1..(i - 1) :
        /\ log[j].request.session_id = log[i].request.session_id
        /\ log[j].response.result = "REGENERATE"})

\* threshold values (hundredths) the configurations below are built from
ThresholdValues == {20, 60, 90, 96, 99}

\* the configuration surface: pass_threshold, fail_threshold,
\* regenerate_threshold, max_regenerate; the first is the one of the
\* end-to-end scenarios (0.9, 0.2, 0.6, 2)
DecisionConfigs ==
    {c \in [pass_threshold : ThresholdValues,
            fail_threshold : ThresholdValues,
            regenerate_threshold : ThresholdValues,
            max_regenerate : {0, 2}] :
        /\ c.fail_threshold < c.regenerate_threshold
        /\ c.regenerate_threshold <= c.pass_threshold}

\* ---- C2 -------------------------------------------------------------------
\* C2: a request for a session id not seen before that carries exactly one
\* event (fewer than the minimum) is answered STEP_UP.
Orig_C2 ==
    \A i \in DOMAIN log :
        (IsNewSession(i) /\ Len(log[i].request.events) = 1)
            => log[i].response.result = "STEP_UP"

\* ---- C3 -------------------------------------------------------------------
\* C3: under every configuration a session's regenerate count stays at most
\* max_regenerate, and a request whose confidence lies strictly between
\* fail_threshold and regenerate_threshold while the count equals
\* max_regenerate is answered STEP_UP.
Orig_C3 ==
    \A c \in DecisionConfigs : \A i \in DOMAIN log :
        /\ RegenerateCount(i) <= c.max_regenerate
        /\ ( /\ c.fail_threshold < log[i].response.confidence
             /\ log[i].response.confidence < c.regenerate_threshold
             /\ RegenerateCount(i) = c.max_regenerate )
              => log[i].response.result = "STEP_UP"

Orig_C6 ==
    \A c \in DecisionConfigs : \A i \in DOMAIN log :
        LET r == log[i].response IN
        /\ r.confidence >= c.pass_threshold => r.result = "PASS"
        /\ r.confidence <= c.fail_threshold => r.result = "FAIL"
        /\ r.result \in {"REGENERATE", "STEP_UP"}
              => (c.fail_threshold < r.confidence /\ r.confidence < c.pass_threshold)

\* ---- C7 -------------------------------------------------------------------
\* C7: two handled requests with the same session id and the same events got
\* the same result and the same confidence, whatever was handled in between.
Thm_C7 ==
    \A i \in DOMAIN log : \A j \in DOMAIN log :
        log[i].request = log[j].request
            => /\ log[i].response.result = log[j].response.result
               /\ log[i].response.confidence = log[j].response.confidence

\* the same request (with events) was handled twice
Wit_C7 ==
    \E i \in DOMAIN log : \E j \in DOMAIN log :
        /\ i < j
        /\ log[i].request = log[j].request
        /\ log[i].request.events # <<>>

\* ---- C9 -------------------------------------------------------------------
\* every answer sent so far is a verdict with a confidence in [0,1]
ResponsesWellFormed ==
    \A i \in DOMAIN log :
        /\ log[i].response.result \in VerificationResult
        /\ log[i].response.confidence \in 0..100

Responded(id) == \E i \in DOMAIN log : log[i].id = id

\* C9: every request that arrived is eventually answered, and every answer
\* is one of the four verdicts with a confidence in [0,1], also when the
\* request has no event or only invalid ones.
Thm_C9 ==
    /\ []ResponsesWellFormed
    /\ \A id \in RequestIds : (id \in DOMAIN inflight) ~> Responded(id)

\* a request all of whose events are invalid, and one without events, were
\* both answered
Wit_C9 ==
    /\ \E i \in DOMAIN log :
          /\ log[i].request.events # <<>>
          /\ \A k \in DOMAIN log[i].request.events :
                InvalidEvent(log[i].request.events[k])
    /\ \E i \in DOMAIN log : log[i].request.events = <<>>

\* ---- C10 ------------------------------------------------------------------
\* C10: every answer is PASS with confidence 0.95 and details
\* {placeholder: true, events_received: number of events of its request},
\* whatever the session id, the events and the requests handled before; so
\* FAIL, REGENERATE and STEP_UP never appear.
Thm_C10 ==
    \A i \in DOMAIN log :
        log[i].response =
            [result |-> "PASS",
             confidence |-> PlaceholderConfidence,
             details |-> [placeholder |-> TRUE,
                          events_received |-> Len(log[i].request.events)]]

\* two sessions were answered, the second request with more events than the
\* first
Wit_C10 ==
    \E i \in DOMAIN log : \E j \in DOMAIN log :
        /\ i < j
        /\ log[i].request.session_id # log[j].request.session_id
        /\ Len(log[i].request.events) < Len(log[j].request.events)
====
